---------------------------- MODULE Spec2Model ----------------------------
(***************************************************************************)
(* Stock rater: the rating engine (rating.py), the sector peer cache and   *)
(* the analysis pipeline (data.py) and the REST endpoints (main.py).       *)
(*                                                                         *)
(* Numbers.  Python floats are modelled as fixed-point integers:           *)
(*   - a KPI value v stands for v/100 (trailingPE 10.0 is 1000, a return   *)
(*     on equity of 0.20 is 20);                                           *)
(*   - a score in [0,1] is an integer in 0..Scale (Scale is 1.0);          *)
(*   - a weight is in hundredths (0.15 is 15);                             *)
(*   - a value rounded to 3 decimals is in thousandths, a rating rounded   *)
(*     to 1 decimal is in tenths (1.0 is 10).                              *)
(* An optional float is <<>> for None and <<v>> for a present v.  A dict   *)
(* is a function; a key the dict does not hold is outside its DOMAIN.      *)
(* A str is a sequence of one-character strings.                           *)
(***************************************************************************)
EXTENDS Integers, Sequences, FiniteSets, TLC

VARIABLES
    stock_kpis,        \* calculate_rating: argument stock_kpis
    sector_averages,   \* calculate_rating: argument sector_averages
    weights,           \* calculate_rating: <<absolute_weight, relative_weight>>
    rating,            \* calculate_rating: what the call gave
    abs_args,          \* _score_absolute: [cfg, v, w], a KPI and two values
    abs_scores,        \* _score_absolute: the scores of v and of w
    all_kpis,          \* compute_sector_averages: argument all_kpis
    averages,          \* compute_sector_averages: what the call gave
    sector_cache,      \* data.py: _sector_cache, cache key -> [kpis, timestamp]
    now,               \* time.time(), in seconds
    ticks,             \* how often the clock has advanced
    upstream,          \* what yf.Ticker(symbol).info gives for each symbol
    resp               \* what the call made in the last step did and gave

rateVars == <<stock_kpis, sector_averages, weights, rating>>
absVars  == <<abs_args, abs_scores>>
aggVars  == <<all_kpis, averages>>
dataVars == <<sector_cache, now, ticks, upstream, resp>>
vars == <<rateVars, absVars, aggVars, dataVars>>

None == <<>>
Some(v) == <<v>>

\* dict.get(k): None for a key the dict does not hold
Get(d, k) == IF k \in DOMAIN d THEN d[k] ELSE None

Scale == 10^4
Half == Scale \div 2

Abs(n) == IF n < 0 THEN -n ELSE n
Min(a, b) == IF a < b THEN a ELSE b
Max(a, b) == IF a > b THEN a ELSE b

\* a / b rounded to the nearest integer, ties to even (b > 0)
RoundDiv(a, b) ==
    LET q == a \div b
        r == a % b
    IN  IF 2 * r < b THEN q
        ELSE IF 2 * r > b THEN q + 1
        ELSE IF q % 2 = 0 THEN q ELSE q + 1

\* round(x, 3) and round(x, 1) of a number in units of 1/Scale
Round3(x) == RoundDiv(x, Scale \div 1000)
Round1(x) == RoundDiv(x, Scale \div 10)

--------------------------------------------------------------------------
(* rating.py : the KPI catalog *)

KPI_CONFIGS == <<
    [key |-> "trailingPE",         weight |-> 15, lower_is_better |-> TRUE,
     abs_best |-> 500, abs_worst |-> 6000],
    [key |-> "forwardPE",          weight |-> 12, lower_is_better |-> TRUE,
     abs_best |-> 500, abs_worst |-> 5000],
    [key |-> "priceToBook",        weight |-> 10, lower_is_better |-> TRUE,
     abs_best |-> 50, abs_worst |-> 2000],
    [key |-> "enterpriseToEbitda", weight |-> 12, lower_is_better |-> TRUE,
     abs_best |-> 300, abs_worst |-> 4000],
    [key |-> "debtToEquity",       weight |-> 10, lower_is_better |-> TRUE,
     abs_best |-> 0, abs_worst |-> 30000],
    [key |-> "returnOnEquity",     weight |-> 12, lower_is_better |-> FALSE,
     abs_best |-> 40, abs_worst |-> -10],
    [key |-> "profitMargins",      weight |-> 10, lower_is_better |-> FALSE,
     abs_best |-> 40, abs_worst |-> -10],
    [key |-> "revenueGrowth",      weight |-> 9,  lower_is_better |-> FALSE,
     abs_best |-> 50, abs_worst |-> -20],
    [key |-> "currentRatio",       weight |-> 5,  lower_is_better |-> FALSE,
     abs_best |-> 300, abs_worst |-> 30],
    [key |-> "dividendYield",      weight |-> 5,  lower_is_better |-> FALSE,
     abs_best |-> 6, abs_worst |-> 0] >>

NumKpis == Len(KPI_CONFIGS)

get_kpi_keys == [i \in 1..NumKpis |-> KPI_CONFIGS[i].key]

KpiKeys == {KPI_CONFIGS[i].key : i \in 1..NumKpis}

CfgOf(k) == CHOOSE c \in {KPI_CONFIGS[i] : i \in 1..NumKpis} : c.key = k

--------------------------------------------------------------------------
(* rating.py : _score_absolute *)

ScoreAbsoluteFlipped(value, cfg) ==
    IF ~cfg.lower_is_better
    THEN IF value <= cfg.abs_best THEN Scale
         ELSE IF value >= cfg.abs_worst THEN 0
         ELSE Scale - RoundDiv((value - cfg.abs_best) * Scale,
                               cfg.abs_worst - cfg.abs_best)
    ELSE IF value >= cfg.abs_best THEN Scale
         ELSE IF value <= cfg.abs_worst THEN 0
         ELSE RoundDiv((value - cfg.abs_worst) * Scale,
                       cfg.abs_best - cfg.abs_worst)

ScoreAbsolute(value, cfg) ==
    IF cfg.lower_is_better
    THEN IF value <= cfg.abs_best THEN Scale
         ELSE IF value >= cfg.abs_worst THEN 0
         ELSE Scale - RoundDiv((value - cfg.abs_best) * Scale,
                               cfg.abs_worst - cfg.abs_best)
    ELSE IF value >= cfg.abs_best THEN Scale
         ELSE IF value <= cfg.abs_worst THEN 0
         ELSE RoundDiv((value - cfg.abs_worst) * Scale,
                       cfg.abs_best - cfg.abs_worst)

--------------------------------------------------------------------------
(* rating.py : _score_relative *)

\* What a float operation gives: a value, or the exception it raises.
Ok(v) == [err |-> "", val |-> v]
Raise(e) == [err |-> e, val |-> 0]

\* a / b on floats, the quotient in units of 1/Scale
FloatDiv(a, b) ==
    IF b = 0 THEN Raise("ZeroDivisionError")
    ELSE Ok(RoundDiv(a * Scale, b))

\* e^-k for k = 0, 1, 2, ... in units of 1/Scale
ExpNegInt(k) ==
    LET table == <<10000, 3679, 1353, 498, 183, 67, 25, 9, 3, 1>>
    IN  IF k < Len(table) THEN table[k + 1] ELSE 0

\* e^g for 0 <= g < Scale (that is, 0 <= g < 1.0): the Taylor series, term
\* n being term n - 1 times g / n
RECURSIVE TaylorSum(_, _, _)
TaylorSum(term, n, g) ==
    IF n > 7 THEN 0
    ELSE LET next == (term * g) \div (n * Scale)
         IN  next + TaylorSum(next, n + 1, g)

ExpFrac(g) == Scale + TaylorSum(Scale, 1, g)

\* e^-t for t >= 0 in units of 1/Scale
ExpNeg(t) ==
    LET k == (t + Scale - 1) \div Scale
        g == k * Scale - t
    IN  (ExpNegInt(k) * ExpFrac(g)) \div Scale

\* math.exp raises OverflowError for an argument above 709.78
ExpOverflowAt == 7097827

\* math.exp(y): the ratio <<num, den>>, or OverflowError.  e^y for y > 0 is
\* kept as 1 / e^-y, which stays within the integers of the model.
MathExp(y) ==
    IF y > ExpOverflowAt THEN Raise("OverflowError")
    ELSE IF y <= 0 THEN Ok(<<ExpNeg(-y), Scale>>)
    ELSE Ok(<<Scale, ExpNeg(y)>>)

\* score = 1.0 / (1.0 + e); max(0.0, min(1.0, score)), e being <<num, den>>
Sigmoid(e) ==
    IF e.err # "" THEN Raise(e.err)
    ELSE Ok(Max(0, Min(Scale, RoundDiv(Scale * e.val[2], e.val[2] + e.val[1]))))

\* pct_diff = d, negated when lower is better; math.exp(-4.0 * pct_diff)
Logistic(d, cfg) ==
    IF d.err # "" THEN Raise(d.err)
    ELSE Sigmoid(MathExp(-4 * (IF cfg.lower_is_better THEN -d.val ELSE d.val)))

ScoreRelativeNoZeroGuard(value, sector_avg, cfg) ==
    IF sector_avg = None THEN Ok(Half)
    ELSE Logistic(FloatDiv(value - sector_avg[1], Abs(sector_avg[1])), cfg)

ScoreRelative(value, sector_avg, cfg) ==
    IF sector_avg = None \/ sector_avg = Some(0) THEN Ok(Half)
    ELSE Logistic(FloatDiv(value - sector_avg[1], Abs(sector_avg[1])), cfg)

--------------------------------------------------------------------------
(* rating.py : extract_kpis *)

\* A raw field of the provider's info dict is None or Some(raw), raw being a
\* number or something float() rejects (ValueError for text, TypeError for
\* a list).
RawNum(v) == [kind |-> "number", num |-> v]
RawText == [kind |-> "text", num |-> 0]

ToFloat(raw) == IF raw.kind = "number" THEN Some(raw.num) ELSE None

extract_kpis(info) ==
    [k \in KpiKeys |->
        LET val == Get(info, k)
        IN  IF val # None THEN ToFloat(val[1]) ELSE None]

--------------------------------------------------------------------------
(* rating.py : compute_sector_averages *)

\* list.sort(): ascending
RECURSIVE InsertSorted(_, _)
InsertSorted(s, x) ==
    IF s = <<>> THEN <<x>>
    ELSE IF x <= Head(s) THEN <<x>> \o s
    ELSE <<Head(s)>> \o InsertSorted(Tail(s), x)

RECURSIVE Sort(_)
Sort(s) == IF s = <<>> THEN <<>> ELSE InsertSorted(Sort(Tail(s)), Head(s))

\* [kpi[key] for kpi in all_kpis if kpi.get(key) is not None]
RECURSIVE PresentValues(_, _)
PresentValues(kpis, key) ==
    IF kpis = <<>> THEN <<>>
    ELSE LET rest == PresentValues(Tail(kpis), key)
         IN  IF Get(Head(kpis), key) # None
             THEN <<Head(kpis)[key][1]>> \o rest
             ELSE rest

MedianUnsorted(values) ==
    LET mid == Len(values) \div 2
    IN  IF Len(values) % 2 = 0
        THEN (values[mid] + values[mid + 1]) \div 2
        ELSE values[mid + 1]

\* values.sort(); mid = len(values) // 2; ... (values is not empty).
\* Python's values[mid - 1], values[mid] are sorted[mid], sorted[mid + 1].
Median(values) ==
    LET sorted == Sort(values)
        mid == Len(sorted) \div 2
    IN  IF Len(sorted) % 2 = 0
        THEN (sorted[mid] + sorted[mid + 1]) \div 2
        ELSE sorted[mid + 1]

compute_sector_averages(kpis) ==
    [k \in KpiKeys |->
        LET values == PresentValues(kpis, k)
        IN  IF values # <<>> THEN Some(Median(values)) ELSE None]

--------------------------------------------------------------------------
(* rating.py : calculate_rating *)

AbsentEntry == [absolute |-> None, relative |-> None, combined |-> None]

RelScore(val, avg, cfg) ==
    IF avg # None THEN ScoreRelative(val[1], avg, cfg) ELSE Ok(Half)

\* The kpi_scores entry of one KPI with a present value; combined is
\* absolute_weight * abs_score + relative_weight * rel_score.
EntryAbsentWithoutAverage(abs_score, rel_score, avg, w) ==
    IF avg = None THEN AbsentEntry
    ELSE [absolute |-> Some(Round3(abs_score)),
          relative |-> Some(Round3(rel_score)),
          combined |-> Some(Round3(RoundDiv(w[1] * abs_score + w[2] * rel_score, 100)))]

ScoreEntry(abs_score, rel_score, avg, w) ==
    [absolute |-> Some(Round3(abs_score)),
     relative |-> Some(Round3(rel_score)),
     combined |-> Some(Round3(RoundDiv(w[1] * abs_score + w[2] * rel_score, 100)))]

PutScore(scores, key, entry) ==
    [k \in DOMAIN scores \cup {key} |-> IF k = key THEN entry ELSE scores[k]]

\* One pass of "for cfg in KPI_CONFIGS" over the accumulators
\* total_abs_weighted, total_rel_weighted, total_weight_used, kpi_scores.
\* A raise in _score_relative leaves the loop with the exception.
Accumulate(acc, cfg, avg, abs_score, rel, w) ==
    IF rel.err # "" THEN [acc EXCEPT !.err = rel.err]
    ELSE [err |-> "",
          abs |-> acc.abs + abs_score * cfg.weight,
          rel |-> acc.rel + rel.val * cfg.weight,
          weight |-> acc.weight + cfg.weight,
          kpi_scores |-> PutScore(acc.kpi_scores, cfg.key,
                                  ScoreEntry(abs_score, rel.val, avg, w))]

LoopStep(acc, cfg, stock, sector, w) ==
    IF acc.err # "" THEN acc
    ELSE IF Get(stock, cfg.key) = None
    THEN [acc EXCEPT !.kpi_scores = PutScore(@, cfg.key, AbsentEntry)]
    ELSE Accumulate(acc, cfg, Get(sector, cfg.key),
                    ScoreAbsolute(Get(stock, cfg.key)[1], cfg),
                    RelScore(Get(stock, cfg.key), Get(sector, cfg.key), cfg), w)

RECURSIVE Loop(_, _, _, _, _)
Loop(i, acc, stock, sector, w) ==
    IF i > NumKpis THEN acc
    ELSE Loop(i + 1, LoopStep(acc, KPI_CONFIGS[i], stock, sector, w),
              stock, sector, w)

\* if total_weight_used > 0: total /= total_weight_used
NormalizeByFullWeight(total, weight_used) == RoundDiv(total, 100)

NormalizeNeutralWhenEmpty(total, weight_used) ==
    IF weight_used > 0 THEN RoundDiv(total, weight_used) ELSE Half

Normalize(total, weight_used) ==
    IF weight_used > 0 THEN RoundDiv(total, weight_used) ELSE total

\* round(1.0 + raw * 9.0, 1), raw in units of 1/(Scale * den); in tenths
ToRating(raw, den) == RoundDiv(10 * (den * Scale + 9 * raw), den * Scale)

RatingRaised(e) ==
    [err |-> e, overall_rating |-> 0, absolute_score |-> 0,
     relative_score |-> 0, kpi_scores |-> <<>>]

\* overall_raw and the three ratings, from the normalized totals
Blend(total_abs_weighted, total_rel_weighted, kpi_scores, w) ==
    [err |-> "",
     overall_rating |->
         ToRating(w[1] * total_abs_weighted + w[2] * total_rel_weighted, 100),
     absolute_score |-> ToRating(total_abs_weighted, 1),
     relative_score |-> ToRating(total_rel_weighted, 1),
     kpi_scores |-> kpi_scores]

RatingOf(acc, w) ==
    IF acc.err # "" THEN RatingRaised(acc.err)
    ELSE Blend(Normalize(acc.abs, acc.weight), Normalize(acc.rel, acc.weight),
               acc.kpi_scores, w)

calculate_rating(stock, sector, w) ==
    RatingOf(Loop(1, [err |-> "", abs |-> 0, rel |-> 0, weight |-> 0,
                      kpi_scores |-> <<>>], stock, sector, w), w)

--------------------------------------------------------------------------
(* Python str methods on sequences of characters *)

LowerLetters == <<"a", "f", "i", "t">>
UpperLetters == <<"A", "F", "I", "T">>

UpperChar(c) ==
    IF \E i \in DOMAIN LowerLetters : LowerLetters[i] = c
    THEN UpperLetters[CHOOSE i \in DOMAIN LowerLetters : LowerLetters[i] = c]
    ELSE c

LowerChar(c) ==
    IF \E i \in DOMAIN UpperLetters : UpperLetters[i] = c
    THEN LowerLetters[CHOOSE i \in DOMAIN UpperLetters : UpperLetters[i] = c]
    ELSE c

Upper(s) == [i \in 1..Len(s) |-> UpperChar(s[i])]
Lower(s) == [i \in 1..Len(s) |-> LowerChar(s[i])]

RECURSIVE LStrip(_)
LStrip(s) == IF s # <<>> /\ Head(s) = " " THEN LStrip(Tail(s)) ELSE s

RECURSIVE RStrip(_)
RStrip(s) ==
    IF s # <<>> /\ s[Len(s)] = " " THEN RStrip(SubSeq(s, 1, Len(s) - 1)) ELSE s

Strip(s) == RStrip(LStrip(s))

--------------------------------------------------------------------------
(* data.py : the provider, the sector cache, get_sector_peers_kpis *)

SP500_TICKERS == << <<"A">>, <<"F">> >>

CACHE_TTL_SECONDS == 3600

\* yf.Ticker(symbol).info: [raises, info]; a symbol the provider does not
\* know gives an empty info
Provider(up, symbol) ==
    IF symbol \in DOMAIN up THEN up[symbol] ELSE [raises |-> FALSE, info |-> <<>>]

\* clear_cache
clear_cache == <<>>

\* now - cached["timestamp"] < CACHE_TTL_SECONDS
CacheFreshInclusive(cached, t) == t - cached.timestamp <= CACHE_TTL_SECONDS

CacheFresh(cached, t) == t - cached.timestamp < CACHE_TTL_SECONDS

CacheKey(sector) == Strip(Lower(sector))

\* [k for k in kpis if k.get("_ticker", "").upper() != exclude_ticker.upper()]
\* when exclude_ticker is not empty, else kpis
ExcludeTicker(kpis, exclude_ticker) ==
    IF exclude_ticker # <<>>
    THEN SelectSeq(kpis, LAMBDA k :
             Upper(IF "_ticker" \in DOMAIN k THEN k["_ticker"] ELSE <<>>)
               # Upper(exclude_ticker))
    ELSE kpis

\* kpis = extract_kpis(info); kpis["_ticker"] = ticker
PeerRecord(info, ticker) ==
    LET kpis == extract_kpis(info)
    IN  [k \in KpiKeys \cup {"_ticker"} |->
            IF k = "_ticker" THEN ticker ELSE kpis[k]]

\* The body of "for ticker in SP500_TICKERS": try ... except Exception:
\* continue.  acc is [all_kpis, visited, err].  info.get("sector", "") is
\* None for a sector key holding None, and None.lower() raises
\* AttributeError, which the except clause catches like a failed fetch.
FetchStepFailureAborts(acc, ticker, cache_key, up) ==
    LET out == Provider(up, ticker)
        info == out.info
        sector == IF "sector" \in DOMAIN info THEN info["sector"] ELSE Some(<<>>)
        seen == [acc EXCEPT !.visited = @ + 1]
    IN  IF acc.err # "" THEN acc
        ELSE IF out.raises THEN [seen EXCEPT !.err = "Exception"]
        ELSE IF info = <<>> THEN seen
        ELSE IF sector = None THEN [seen EXCEPT !.err = "AttributeError"]
        ELSE IF Strip(Lower(sector[1])) = cache_key
             THEN [seen EXCEPT !.all_kpis = Append(@, PeerRecord(info, ticker))]
             ELSE seen

FetchStep(acc, ticker, cache_key, up) ==
    LET out == Provider(up, ticker)
        info == out.info
        sector == IF "sector" \in DOMAIN info THEN info["sector"] ELSE Some(<<>>)
        seen == [acc EXCEPT !.visited = @ + 1]
    IN  IF acc.err # "" THEN acc
        ELSE IF out.raises THEN seen
        ELSE IF info = <<>> THEN seen
        ELSE IF sector = None THEN seen
        ELSE IF Strip(Lower(sector[1])) = cache_key
             THEN [seen EXCEPT !.all_kpis = Append(@, PeerRecord(info, ticker))]
             ELSE seen

RECURSIVE FetchLoop(_, _, _, _)
FetchLoop(i, acc, cache_key, up) ==
    IF i > Len(SP500_TICKERS) THEN acc
    ELSE FetchLoop(i + 1, FetchStep(acc, SP500_TICKERS[i], cache_key, up),
                   cache_key, up)

\* _sector_cache[cache_key] = {"kpis": all_kpis, "timestamp": now}
CachePut(cache, cache_key, kpis, t) ==
    [k \in DOMAIN cache \cup {cache_key} |->
        IF k = cache_key THEN [kpis |-> kpis, timestamp |-> t] ELSE cache[k]]

\* get_sector_peers_kpis at time t gives the cache after the call, the list
\* returned, whether the cache answered, how many tickers the fetch loop
\* visited, and the exception that left the call, if any.
\* The cache answers:
CacheHit(cache, cache_key, exclude_ticker) ==
    [cache |-> cache, err |-> "", from_cache |-> TRUE, visited |-> 0,
     key |-> cache_key,
     peers |-> ExcludeTicker(cache[cache_key].kpis, exclude_ticker)]

\* The sector was fetched: store in cache, filter, return
CacheMiss(cache, t, cache_key, exclude_ticker, got) ==
    IF got.err # ""
    THEN [cache |-> cache, err |-> got.err, from_cache |-> FALSE,
          visited |-> got.visited, key |-> cache_key, peers |-> <<>>]
    ELSE [cache |-> CachePut(cache, cache_key, got.all_kpis, t),
          err |-> "", from_cache |-> FALSE, visited |-> got.visited,
          key |-> cache_key,
          peers |-> ExcludeTicker(got.all_kpis, exclude_ticker)]

PeersOfKey(cache, t, up, cache_key, exclude_ticker) ==
    IF cache_key \in DOMAIN cache /\ CacheFresh(cache[cache_key], t)
    THEN CacheHit(cache, cache_key, exclude_ticker)
    ELSE CacheMiss(cache, t, cache_key, exclude_ticker,
                   FetchLoop(1, [all_kpis |-> <<>>, visited |-> 0, err |-> ""],
                             cache_key, up))

get_sector_peers_kpis(cache, t, up, sector, exclude_ticker) ==
    PeersOfKey(cache, t, up, CacheKey(sector), exclude_ticker)

--------------------------------------------------------------------------
(* data.py : get_stock_info, analyze_stock;  main.py : api_analyze *)

\* get_stock_info(ticker): yf.Ticker(ticker.upper().strip()).info, or
\* ValueError when the info is empty or has no regularMarketPrice
get_stock_info(up, ticker) ==
    LET out == Provider(up, Strip(Upper(ticker)))
    IN  IF out.raises THEN [err |-> "Exception", info |-> <<>>]
        ELSE IF out.info = <<>> \/ Get(out.info, "regularMarketPrice") = None
             THEN [err |-> "ValueError", info |-> <<>>]
             ELSE [err |-> "", info |-> out.info]

\* get_stock_sector(info)
get_stock_sector(info) == Get(info, "sector")

\* "not sector": None and "" are falsy
NotSectorNoneOnly(sector) == sector = None

NotSector(sector) == sector = None \/ sector = Some(<<>>)

NoResult(e) ==
    [err |-> e, cache_touched |-> FALSE, from_cache |-> FALSE, visited |-> 0,
     key |-> <<>>, peers |-> <<>>, rating |-> RatingRaised("not called"),
     sector_averages |-> <<>>]

\* analyze_stock(ticker) at time t gives the cache after the call and what the
\* call gave (steps 1 to 4; the comparison table of step 5 reads these only).
\* 4. Calculate rating
AnalyzeRated(p, avgs, r) ==
    [cache |-> p.cache,
     res |-> [err |-> r.err, cache_touched |-> TRUE,
              from_cache |-> p.from_cache, visited |-> p.visited,
              key |-> p.key, peers |-> p.peers, rating |-> r,
              sector_averages |-> avgs]]

AnalyzeAverages(stock, p, avgs) ==
    AnalyzeRated(p, avgs, calculate_rating(stock, avgs, <<40, 60>>))

\* 3. Get sector peers and compute averages
AnalyzePeers(stock, p) ==
    IF p.err # "" THEN [cache |-> p.cache, res |-> NoResult(p.err)]
    ELSE AnalyzeAverages(stock, p, compute_sector_averages(p.peers))

\* "if not sector: raise ValueError", 2. Extract stock KPIs
AnalyzeSector(cache, t, up, ticker, info, sector) ==
    IF NotSector(sector) THEN [cache |-> cache, res |-> NoResult("ValueError")]
    ELSE AnalyzePeers(extract_kpis(info),
                      get_sector_peers_kpis(cache, t, up, sector[1], ticker))

\* 1. Fetch stock data
AnalyzeInfo(cache, t, up, ticker, got) ==
    IF got.err # "" THEN [cache |-> cache, res |-> NoResult(got.err)]
    ELSE AnalyzeSector(cache, t, up, ticker, got.info, get_stock_sector(got.info))

analyze_stock(cache, t, up, ticker) ==
    AnalyzeInfo(cache, t, up, ticker, get_stock_info(up, ticker))

\* api_analyze: 200 with the result, 400 for a ValueError, 500 for any other
\* exception
StatusOf(e) == IF e = "" THEN 200 ELSE IF e = "ValueError" THEN 400 ELSE 500

--------------------------------------------------------------------------
(* Bounds and input sets *)

MaxPresent == 2     \* calculate_rating: KPIs with a present stock value
MaxPeers == 4       \* compute_sector_averages: peers in all_kpis
MaxTicks == 2       \* how often the clock advances

\* calculate_rating: one KPI's stock value and sector average (has = FALSE:
\* sector_averages does not hold the key)
RateCases ==
    { [v |-> 1000,   a |-> Some(2000), has |-> TRUE],
      [v |-> 1000,   a |-> Some(1000), has |-> TRUE],
      [v |-> 1000,   a |-> Some(0),    has |-> TRUE],
      [v |-> 1000,   a |-> None,       has |-> TRUE],
      [v |-> 1000,   a |-> None,       has |-> FALSE],
      [v |-> 20,     a |-> Some(16),   has |-> TRUE],
      [v |-> 30000,  a |-> Some(100),  has |-> TRUE],
      [v |-> -20000, a |-> Some(100),  has |-> TRUE] }

\* calculate_rating: how the KPIs without a stock value appear in stock_kpis
\* (None, or no key) and in sector_averages (None, no key, or a value)
AbsentForms ==
    { [stock |-> "None", sector |-> "None"],
      [stock |-> "missing", sector |-> "missing"],
      [stock |-> "None", sector |-> "value"] }

WeightPairs == { <<40, 60>>, <<50, 50>> }

\* _score_absolute: every bound of the catalog, its neighbours, and values
\* far outside
CatalogBounds ==
    UNION { {KPI_CONFIGS[i].abs_best, KPI_CONFIGS[i].abs_worst} : i \in 1..NumKpis }

AbsGrid ==
    { b + d : b \in CatalogBounds, d \in {-1, 0, 1} }
        \cup {-20000, 3, 20, 1000, 40000}

\* compute_sector_averages: what one peer reports for trailingPE (pe; has =
\* FALSE: the peer's dict does not hold the key) and for dividendYield (dy).
\* The values are even, so the mean of two of them is a value of the model.
PeerChoices ==
    { [pe |-> x, has |-> TRUE, dy |-> y] :
        x \in {None, Some(1000), Some(2000), Some(3000), Some(4000)},
        y \in {None, Some(2)} }
    \cup { [pe |-> None, has |-> FALSE, dy |-> y] : y \in {None, Some(2)} }

PeerMap(c) ==
    [k \in (IF c.has THEN KpiKeys ELSE KpiKeys \ {"trailingPE"}) |->
        IF k = "trailingPE" THEN c.pe
        ELSE IF k = "dividendYield" THEN c.dy
        ELSE None]

SeqsUpTo(S, n) == UNION { [1..m -> S] : m \in 0..n }

--------------------------------------------------------------------------
(* The rating engine's functions, each applied to inputs drawn by Init *)

NotCalled == RatingRaised("not called")
NoCall ==
    [op |-> "none", arg |-> <<>>, exclude |-> <<>>, status |-> 0,
     res |-> NoResult("")]

IdleRate ==
    /\ stock_kpis = <<>>
    /\ sector_averages = <<>>
    /\ weights = <<40, 60>>
    /\ rating = NotCalled

IdleAbs == abs_args = <<>> /\ abs_scores = <<>>

IdleAgg == all_kpis = <<>> /\ averages = <<>>

IdleData ==
    /\ sector_cache = <<>>
    /\ now = 0
    /\ ticks = 0
    /\ upstream = <<>>
    /\ resp = NoCall

RateInit ==
    /\ \E P \in {Q \in SUBSET KpiKeys : Cardinality(Q) <= MaxPresent} :
       \E f \in [P -> RateCases] :
       \E form \in AbsentForms :
          /\ stock_kpis =
                [k \in (IF form.stock = "None" THEN KpiKeys ELSE P) |->
                    IF k \in P THEN Some(f[k].v) ELSE None]
          /\ sector_averages =
                [k \in {q \in P : f[q].has}
                       \cup (IF form.sector = "missing" THEN {} ELSE KpiKeys \ P) |->
                    IF k \in P THEN f[k].a
                    ELSE IF form.sector = "None" THEN None ELSE Some(1000)]
    /\ weights \in WeightPairs
    /\ rating = NotCalled
    /\ IdleAbs /\ IdleAgg /\ IdleData

Rate ==
    /\ rating = NotCalled
    /\ rating' = calculate_rating(stock_kpis, sector_averages, weights)
    /\ UNCHANGED <<stock_kpis, sector_averages, weights, absVars, aggVars, dataVars>>

SpecRate == RateInit /\ [][Rate]_vars

AbsInit ==
    /\ abs_args \in [cfg : 1..NumKpis, v : AbsGrid, w : AbsGrid]
    /\ abs_scores = <<>>
    /\ IdleRate /\ IdleAgg /\ IdleData

Score ==
    /\ abs_scores = <<>>
    /\ abs_scores' = << ScoreAbsolute(abs_args.v, KPI_CONFIGS[abs_args.cfg]),
                        ScoreAbsolute(abs_args.w, KPI_CONFIGS[abs_args.cfg]) >>
    /\ UNCHANGED <<abs_args, rateVars, aggVars, dataVars>>

SpecAbs == AbsInit /\ [][Score]_vars

AggInit ==
    /\ \E cs \in SeqsUpTo(PeerChoices, MaxPeers) :
          all_kpis = [i \in 1..Len(cs) |-> PeerMap(cs[i])]
    /\ averages = <<>>
    /\ IdleRate /\ IdleAbs /\ IdleData

Aggregate ==
    /\ averages = <<>>
    /\ averages' = compute_sector_averages(all_kpis)
    /\ UNCHANGED <<all_kpis, rateVars, absVars, dataVars>>

SpecAgg == AggInit /\ [][Aggregate]_vars

--------------------------------------------------------------------------
(* Properties of calculate_rating (SpecRate) *)

RECURSIVE SumOver(_, _)
SumOver(S, f) ==
    IF S = {} THEN 0
    ELSE LET k == CHOOSE x \in S : TRUE IN f[k] + SumOver(S \ {k}, f)

\* The KPIs with a present stock value, and their unrounded sub-scores
PresentKpis == {k \in KpiKeys : Get(stock_kpis, k) # None}
AbsOf(k) == ScoreAbsolute(stock_kpis[k][1], CfgOf(k))
RelOf(k) == RelScore(stock_kpis[k], Get(sector_averages, k), CfgOf(k)).val
Returned == rating # NotCalled /\ rating.err = ""

\* C1: when calculate_rating returns for a stock with at least one present
\* KPI, overall_rating is round(1 + 9 * (absolute_weight * A + relative_weight
\* * R), 1) with A and R the weight-weighted averages of the sub-scores over
\* the present KPIs only; with exactly one present KPI of sub-scores a and r
\* it is round(1 + 9 * (absolute_weight * a + relative_weight * r), 1),
\* whatever the KPI's weight.
C1_Renormalized ==
    (Returned /\ PresentKpis # {}) =>
        LET W == SumOver(PresentKpis, [k \in PresentKpis |-> CfgOf(k).weight])
            A == RoundDiv(SumOver(PresentKpis,
                     [k \in PresentKpis |-> CfgOf(k).weight * AbsOf(k)]), W)
            R == RoundDiv(SumOver(PresentKpis,
                     [k \in PresentKpis |-> CfgOf(k).weight * RelOf(k)]), W)
        IN  /\ rating.overall_rating
                 = ToRating(weights[1] * A + weights[2] * R, 100)
            /\ \A k \in PresentKpis :
                 PresentKpis = {k} =>
                    rating.overall_rating
                      = ToRating(weights[1] * AbsOf(k) + weights[2] * RelOf(k), 100)

\* Two present KPIs of different weights and different sub-scores, none of
\* them at the floor, rated with the other eight absent
C1_Witness ==
    /\ Returned
    /\ \E k1, k2 \in PresentKpis :
          /\ PresentKpis = {k1, k2}
          /\ CfgOf(k1).weight # CfgOf(k2).weight
          /\ AbsOf(k1) # AbsOf(k2)
          /\ 0 < AbsOf(k1) /\ AbsOf(k1) < Scale
          /\ RelOf(k1) # RelOf(k2)
    /\ rating.overall_rating > 10

\* C2: in the result of calculate_rating, kpi_scores has one entry per
\* catalog KPI; the three fields of an entry are all absent or all present,
\* all absent exactly when the stock's own value is absent; a sector average
\* that is None or whose key is missing gives relative = 0.5 with absolute
\* and combined present.
C2_EntriesAbsentIffNoValue ==
    Returned =>
        /\ DOMAIN rating.kpi_scores = KpiKeys
        /\ \A k \in KpiKeys :
             LET e == rating.kpi_scores[k]
             IN  /\ \/ e.absolute = None /\ e.relative = None /\ e.combined = None
                    \/ e.absolute # None /\ e.relative # None /\ e.combined # None
                 /\ (e.absolute = None) <=> (Get(stock_kpis, k) = None)
                 /\ (Get(stock_kpis, k) # None /\ Get(sector_averages, k) = None)
                       => e.relative = Some(500)

\* A result with an absent KPI, a present KPI whose sector average is None
\* and a present KPI whose key sector_averages does not hold
C2_Witness ==
    /\ Returned
    /\ \E k \in KpiKeys : Get(stock_kpis, k) = None
    /\ \E k1, k2 \in PresentKpis :
          /\ k1 \in DOMAIN sector_averages /\ sector_averages[k1] = None
          /\ k2 \notin DOMAIN sector_averages

\* C3: with every catalog KPI absent in stock_kpis, calculate_rating does
\* not raise and returns overall_rating = absolute_score = relative_score =
\* 1.0, for any sector averages.
C3_AllAbsentIsFloor ==
    (rating # NotCalled /\ PresentKpis = {}) =>
        /\ rating.err = ""
        /\ rating.overall_rating = 10
        /\ rating.absolute_score = 10
        /\ rating.relative_score = 10

\* The all-absent stock rated against sector averages that hold values
C3_Witness ==
    /\ Returned
    /\ PresentKpis = {}
    /\ \A k \in KpiKeys : Get(sector_averages, k) # None

\* The sector average makes the relative sub-score neutral: it is None or
\* missing, zero, or equal to the stock value
NeutralCase(k) ==
    LET avg == Get(sector_averages, k)
    IN  avg = None \/ avg = Some(0) \/ avg = stock_kpis[k]

\* C6: the relative sub-score is exactly 0.5, with no arithmetic fault,
\* when the sector average is absent or zero and when the stock value equals
\* a nonzero sector average, for both directions; a stock all of whose
\* present KPIs are in that case (a zero-peer sector among them) gets a
\* rating.
C6_NeutralRelative ==
    rating # NotCalled =>
        /\ (\A k \in PresentKpis : NeutralCase(k)) => rating.err = ""
        /\ rating.err = "" =>
              \A k \in PresentKpis :
                 NeutralCase(k) => rating.kpi_scores[k].relative = Some(500)

\* A result with a lower-is-better KPI equal to its nonzero sector average
\* and a higher-is-better KPI whose sector average is zero
C6_Witness ==
    /\ Returned
    /\ \E k1, k2 \in PresentKpis :
          /\ CfgOf(k1).lower_is_better /\ ~CfgOf(k2).lower_is_better
          /\ Get(sector_averages, k1) = stock_kpis[k1]
          /\ stock_kpis[k1] # Some(0)
          /\ Get(sector_averages, k2) = Some(0)
          /\ rating.kpi_scores[k1].relative = Some(500)
          /\ rating.kpi_scores[k2].relative = Some(500)

--------------------------------------------------------------------------
(* Properties of _score_absolute (SpecAbs) *)

\* C4: for every KPI of the catalog the absolute score is in [0, 1], is
\* monotonic in the value (non-increasing when lower is better, else
\* non-decreasing), is 1.0 at abs_best and beyond it and 0.0 at abs_worst
\* and beyond it.
C4_AbsoluteClampedMonotonic ==
    abs_scores # <<>> =>
        LET cfg == KPI_CONFIGS[abs_args.cfg]
            v == abs_args.v
            w == abs_args.w
            sv == abs_scores[1]
            sw == abs_scores[2]
        IN  /\ 0 <= sv /\ sv <= Scale
            /\ v <= w => IF cfg.lower_is_better THEN sv >= sw ELSE sv <= sw
            /\ v = cfg.abs_best => sv = Scale
            /\ v = cfg.abs_worst => sv = 0
            /\ IF cfg.lower_is_better
               THEN /\ v <= cfg.abs_best => sv = Scale
                    /\ v >= cfg.abs_worst => sv = 0
               ELSE /\ v >= cfg.abs_best => sv = Scale
                    /\ v <= cfg.abs_worst => sv = 0

\* Two values strictly inside the range of a higher-is-better KPI, scored
\* strictly in order
C4_Witness ==
    /\ abs_scores # <<>>
    /\ ~KPI_CONFIGS[abs_args.cfg].lower_is_better
    /\ abs_args.v < abs_args.w
    /\ 0 < abs_scores[1]
    /\ abs_scores[1] < abs_scores[2]
    /\ abs_scores[2] < Scale

--------------------------------------------------------------------------
(* Properties of compute_sector_averages (SpecAgg) *)

CountLess(vals, x) == Cardinality({i \in DOMAIN vals : vals[i] < x})
CountGreater(vals, x) == Cardinality({i \in DOMAIN vals : vals[i] > x})

\* m is the median of the values, stated by counting, not by sorting
IsMedian(vals, m) ==
    LET n == Len(vals)
        h == n \div 2
    IN  IF n % 2 = 1
        THEN \E i \in DOMAIN vals :
                /\ vals[i] = m
                /\ CountLess(vals, m) <= h
                /\ CountGreater(vals, m) <= h
        ELSE \E i, j \in DOMAIN vals :
                /\ i # j
                /\ vals[i] <= vals[j]
                /\ CountLess(vals, vals[i]) <= h - 1
                /\ CountGreater(vals, vals[i]) <= h
                /\ CountLess(vals, vals[j]) <= h
                /\ CountGreater(vals, vals[j]) <= h - 1
                /\ 2 * m = vals[i] + vals[j]

SwapAt(s, i) ==
    [j \in DOMAIN s |-> IF j = i THEN s[i + 1] ELSE IF j = i + 1 THEN s[i] ELSE s[j]]

\* C5: for each catalog key the aggregate is absent exactly when no peer
\* reports a present value, else it is the median of the present peer values
\* (the middle one, or the mean of the two middle ones), whatever the order
\* of the peers and whatever the peers without a value.
C5_MedianPerKey ==
    averages # <<>> =>
        /\ DOMAIN averages = KpiKeys
        /\ \A k \in KpiKeys :
             LET reporting == {i \in DOMAIN all_kpis : Get(all_kpis[i], k) # None}
                 vals == PresentValues(all_kpis, k)
             IN  /\ (averages[k] = None) <=> (reporting = {})
                 /\ reporting # {} =>
                       /\ Len(vals) = Cardinality(reporting)
                       /\ IsMedian(vals, averages[k][1])
        /\ \A i \in 1..(Len(all_kpis) - 1) :
             compute_sector_averages(SwapAt(all_kpis, i)) = averages

\* Four peers, one without a trailingPE, the others reporting 30, 10, 20 in
\* that order: the aggregate is 20, and the dividendYield nobody reports is
\* absent
C5_Witness ==
    /\ averages # <<>>
    /\ Len(all_kpis) = 4
    /\ PresentValues(all_kpis, "trailingPE") = <<3000, 1000, 2000>>
    /\ averages["trailingPE"] = Some(2000)
    /\ averages["dividendYield"] = None

--------------------------------------------------------------------------
(* The provider, the clock and the calls (Spec) *)

InfoOf(has_sector, sector, pe) ==
    [f \in {"regularMarketPrice", "trailingPE"}
           \cup (IF has_sector THEN {"sector"} ELSE {}) |->
        IF f = "regularMarketPrice" THEN Some(RawNum(100))
        ELSE IF f = "trailingPE" THEN pe
        ELSE sector]

\* What the provider can answer: a failed fetch, an empty info, an info
\* without a sector key, with sector None, with sector "", and infos of the
\* sectors "IT" (also spelled " it") and "Fi"
Failing       == [raises |-> TRUE,  info |-> <<>>]
EmptyInfo     == [raises |-> FALSE, info |-> <<>>]
NoSectorKey   == [raises |-> FALSE, info |-> InfoOf(FALSE, None, Some(RawNum(1000)))]
SectorNone    == [raises |-> FALSE, info |-> InfoOf(TRUE, None, Some(RawNum(1000)))]
SectorEmpty   == [raises |-> FALSE, info |-> InfoOf(TRUE, Some(<<>>), Some(RawNum(1000)))]
InIT          == [raises |-> FALSE, info |-> InfoOf(TRUE, Some(<<"I", "T">>), Some(RawNum(1000)))]
InITLowerCase == [raises |-> FALSE, info |-> InfoOf(TRUE, Some(<<" ", "i", "t">>), Some(RawText))]
InFi          == [raises |-> FALSE, info |-> InfoOf(TRUE, Some(<<"F", "i">>), Some(RawNum(2000)))]

\* The answers the model lets the provider give for each symbol
Outcomes(symbol) ==
    IF symbol = <<"A">>
    THEN {Failing, EmptyInfo, NoSectorKey, SectorNone, SectorEmpty, InIT, InITLowerCase}
    ELSE {Failing, InIT, InFi}

Symbols == {SP500_TICKERS[i] : i \in DOMAIN SP500_TICKERS}

\* The ticker of a request, as the client spells it
TickerArgs == { <<"A">>, <<"a">>, <<"a", " ">>, <<"f">> }

\* The arguments of a direct call of get_sector_peers_kpis
SectorArgs == { <<"I", "T">>, <<" ", "i", "t">> }
ExcludeArgs == { <<>> }

\* The clock advances by a second or by a second less than the TTL
TickSteps == {1, CACHE_TTL_SECONDS - 1}

Init ==
    /\ sector_cache = <<>>
    /\ now = 0
    /\ ticks = 0
    /\ upstream \in {u \in [Symbols -> UNION {Outcomes(t) : t \in Symbols}] :
                        \A t \in Symbols : u[t] \in Outcomes(t)}
    /\ resp = NoCall
    /\ IdleRate /\ IdleAbs /\ IdleAgg

Tick ==
    /\ ticks < MaxTicks
    /\ \E d \in TickSteps : now' = now + d
    /\ ticks' = ticks + 1
    /\ resp' = NoCall
    /\ UNCHANGED <<sector_cache, upstream, rateVars, absVars, aggVars>>

ProviderChanges ==
    /\ \E t \in Symbols : \E o \in Outcomes(t) :
          /\ upstream[t] # o
          /\ upstream' = [upstream EXCEPT ![t] = o]
    /\ resp' = NoCall
    /\ UNCHANGED <<sector_cache, now, ticks, rateVars, absVars, aggVars>>

\* main.py: api_clear_cache
ApiClearCache ==
    /\ sector_cache' = clear_cache
    /\ resp' = [NoCall EXCEPT !.op = "clear", !.status = 200]
    /\ UNCHANGED <<now, ticks, upstream, rateVars, absVars, aggVars>>

\* main.py: api_analyze(ticker)
ApiAnalyze ==
    /\ \E ticker \in TickerArgs :
       \E r \in {analyze_stock(sector_cache, now, upstream, ticker)} :
          /\ sector_cache' = r.cache
          /\ resp' = [op |-> "analyze", arg |-> ticker, exclude |-> ticker,
                      status |-> StatusOf(r.res.err), res |-> r.res]
    /\ UNCHANGED <<now, ticks, upstream, rateVars, absVars, aggVars>>

\* data.py: get_sector_peers_kpis(sector, exclude_ticker), called directly
GetSectorPeers ==
    /\ \E sector \in SectorArgs : \E exclude_ticker \in ExcludeArgs :
       \E p \in {get_sector_peers_kpis(sector_cache, now, upstream, sector,
                                       exclude_ticker)} :
          /\ sector_cache' = p.cache
          /\ resp' = [op |-> "peers", arg |-> sector,
                      exclude |-> exclude_ticker, status |-> 0,
                      res |-> [NoResult(p.err) EXCEPT
                                 !.cache_touched = TRUE,
                                 !.from_cache = p.from_cache,
                                 !.visited = p.visited,
                                 !.key = p.key,
                                 !.peers = p.peers]]
    /\ UNCHANGED <<now, ticks, upstream, rateVars, absVars, aggVars>>

Next == Tick \/ ProviderChanges \/ ApiClearCache \/ ApiAnalyze \/ GetSectorPeers

Spec == Init /\ [][Next]_vars

--------------------------------------------------------------------------
(* Properties of the sector cache and of the analysis pipeline (Spec).      *)
(* resp describes the call made in the last step; a step of the clock or   *)
(* of the provider resets it, so the provider's answers in a state with a  *)
(* call in resp are those the call saw.                                    *)

\* The symbol get_stock_info fetched for the request in resp
TargetSymbol == Strip(Upper(resp.arg))

\* The record the provider holds for the target has a price and no sector
TargetHasNoSector ==
    \E out \in {Provider(upstream, TargetSymbol)} :
        /\ ~out.raises
        /\ out.info # <<>>
        /\ Get(out.info, "regularMarketPrice") # None
        /\ Get(out.info, "sector") \in {None, Some(<<>>)}

\* C7: when the target's record has no sector (absent or empty),
\* analyze_stock fails with a ValueError before any peer fetch, aggregation
\* or rating: no rating result, the sector cache unchanged, and api_analyze
\* answers 400.
C7_NoSectorRejected ==
    [][ (resp'.op = "analyze" /\ TargetHasNoSector') =>
            /\ resp'.status = 400
            /\ resp'.res.err = "ValueError"
            /\ ~resp'.res.cache_touched
            /\ resp'.res.visited = 0
            /\ resp'.res.peers = <<>>
            /\ resp'.res.sector_averages = <<>>
            /\ resp'.res.rating.err # ""
            /\ sector_cache' = sector_cache ]_vars

\* A request for a ticker whose sector is "", rejected with 400 while the
\* cache holds an entry
C7_Witness ==
    /\ resp.op = "analyze"
    /\ TargetHasNoSector
    /\ Get(Provider(upstream, TargetSymbol).info, "sector") = Some(<<>>)
    /\ resp.status = 400
    /\ sector_cache # <<>>

\* The tickers of the universe, in its order, whose fetch succeeded and
\* whose sector (lower-cased, stripped) is the key
MatchingTickers(up, key) ==
    SelectSeq(SP500_TICKERS, LAMBDA t :
        /\ ~up[t].raises
        /\ up[t].info # <<>>
        /\ LET sector == IF "sector" \in DOMAIN up[t].info
                         THEN up[t].info["sector"] ELSE Some(<<>>)
           IN  sector # None /\ Strip(Lower(sector[1])) = key)

TickersOf(kpis) == [i \in DOMAIN kpis |-> kpis[i]["_ticker"]]

\* The call in resp went through get_sector_peers_kpis
PeersCalled == resp.op \in {"peers", "analyze"} /\ resp.res.cache_touched

\* C8: a sector fetch visits every ticker of the universe whatever fails on
\* the way, and the list fetched, which is the cache entry written, holds
\* exactly one KPI record for each ticker whose fetch succeeded and whose
\* sector matches the key, in universe order.
C8_FailedPeersSkipped ==
    (PeersCalled /\ ~resp.res.from_cache) =>
        /\ resp.res.visited = Len(SP500_TICKERS)
        /\ resp.res.key \in DOMAIN sector_cache
        /\ LET kpis == sector_cache[resp.res.key].kpis
           IN  /\ TickersOf(kpis) = MatchingTickers(upstream, resp.res.key)
               /\ \A i \in DOMAIN kpis :
                    \A k \in KpiKeys :
                       kpis[i][k] = extract_kpis(upstream[kpis[i]["_ticker"]].info)[k]
               /\ \A i \in DOMAIN resp.res.peers :
                    \E j \in DOMAIN kpis : resp.res.peers[i] = kpis[j]

\* A fetch of "it" in which the first ticker's record has sector None (the
\* lookup raises AttributeError) and the second ticker is a peer
C8_Witness ==
    /\ resp.op = "peers"
    /\ ~resp.res.from_cache
    /\ upstream[SP500_TICKERS[1]] = SectorNone
    /\ upstream[SP500_TICKERS[2]] = InIT
    /\ TickersOf(sector_cache[resp.res.key].kpis) = <<SP500_TICKERS[2]>>

\* The sector name the call in resp was made for
SectorOfCall ==
    IF resp.op = "peers" THEN resp.arg
    ELSE Provider(upstream, TargetSymbol).info["sector"][1]

\* C9: a call is answered from the cache, with no upstream fetch, exactly
\* when the cache holds an entry for the lower-cased, stripped sector name
\* with now - timestamp < 3600; otherwise the sector is refetched and the
\* entry overwritten with the new list and the timestamp now; clear_cache
\* empties the cache, so the next call for any sector refetches.
C9_CacheAnswersWithinTtl ==
    [][ /\ PeersCalled' =>
             \A sector \in {SectorOfCall'} :
             \A key \in {Strip(Lower(sector))} :
             \A fresh \in {(key \in DOMAIN sector_cache)
                            /\ (now - sector_cache[key].timestamp < CACHE_TTL_SECONDS)} :
                 /\ resp'.res.from_cache <=> fresh
                 /\ fresh =>
                      /\ resp'.res.visited = 0
                      /\ sector_cache' = sector_cache
                      /\ \A i \in DOMAIN resp'.res.peers :
                           \E j \in DOMAIN sector_cache[key].kpis :
                              resp'.res.peers[i] = sector_cache[key].kpis[j]
                 /\ ~fresh =>
                      /\ resp'.res.visited = Len(SP500_TICKERS)
                      /\ DOMAIN sector_cache' = DOMAIN sector_cache \cup {key}
                      /\ sector_cache'[key].timestamp = now
                      /\ TickersOf(sector_cache'[key].kpis)
                            = MatchingTickers(upstream, key)
                      /\ \A k \in DOMAIN sector_cache \ {key} :
                            sector_cache'[k] = sector_cache[k]
        /\ resp'.op = "clear" => sector_cache' = <<>> ]_vars

\* A call for "IT" answered from the entry "it" one second before it expires
C9_Witness ==
    /\ resp.op = "peers"
    /\ resp.arg = <<"I", "T">>
    /\ resp.res.from_cache
    /\ resp.res.key = <<"i", "t">>
    /\ now - sector_cache[resp.res.key].timestamp = CACHE_TTL_SECONDS - 1

\* C10: the peers that feed the sector aggregate of a request never hold the
\* target ticker's own record, for every spelling of the ticker that
\* get_stock_info accepts, fetched or cached; they are the cache entry (the
\* unfiltered sector list) without the target's record.
C10_TargetNeverOwnPeer ==
    (resp.op = "analyze" /\ resp.status = 200) =>
        /\ \A i \in DOMAIN resp.res.peers :
              resp.res.peers[i]["_ticker"] # TargetSymbol
        /\ resp.res.peers
              = SelectSeq(sector_cache[resp.res.key].kpis,
                          LAMBDA k : k["_ticker"] # TargetSymbol)

==========================================================================
